---- MODULE Spec2Model ----
(***************************************************************************)
(* Download job scheduler (backend/workers/download_manager.py) and worker *)
(* (backend/workers/download_worker.py) over the job store                 *)
(* (backend/models.py, READ COMMITTED sessions of backend/core/database.py)*)
(*                                                                         *)
(* Threads: the queue poller, the pool threads of the ThreadPoolExecutor,  *)
(* a caller of cancel_job and the request handlers that submit downloads.  *)
(* Every step is one lock region, one future operation or one committed    *)
(* transaction of the code.  Transactions commit (no database outage is    *)
(* modelled) and the logger calls of the worker are no-ops.                *)
(***************************************************************************)
EXTENDS Integers, Sequences, FiniteSets, TLC

\* ---------------------------------------------------------------- bounds
MaxJobs == 2        \* job rows ever created
max_workers == 1       \* processing.max_concurrent_jobs of the run
MaxCancels == 2     \* cancel_job calls that return True
MaxFaults == 1      \* video rows lost out of band (integrity fault)
MaxDeletes == 2     \* delete_video calls made
MaxPassFaults == 1  \* exceptions raised inside scheduling passes
MaxSinks == 2       \* WebSocket connections ever opened
MaxEvents == 2      \* broadcast_to_user_sync calls made
storage_quota == 1  \* User.storage_quota of the owner, in file sizes
MaxFrameJobs == 1   \* job rows created where every scheduler operation runs

Jobs == 1..MaxJobs
Priorities == {0, 1}
Times == {1, 2}
Terminal == {"completed", "failed", "cancelled"}
Outcomes == {"success", "process_error", "exception"}
Sizes == {1, 2}            \* get_file_size of a downloaded file
Percents == {0, 20, 100}   \* percentages of the progress lines of yt-dlp
Users == {1, 2}            \* user ids of the connections and broadcasts
Sinks == 1..MaxSinks
Events == 1..MaxEvents

VARIABLES
    status,       \* ProcessingJob.status per job id; "none" = row not created
    priority,     \* ProcessingJob.priority
    created_at,   \* ProcessingJob.created_at
    videoRow,     \* the job's Video row exists
    active_jobs,  \* DownloadManager.active_jobs (keys; the value is exec[j])
    wake,         \* DownloadManager.shutdown_flag (the wake Event)
    exec,         \* state of the job's Future and of the worker executing it
    ppc,          \* position of the poller thread
    avail,        \* available_slots of the pass
    fetched,      \* pending_jobs of the pass
    idx,          \* index of the job the pass works on
    cpc,          \* position of the cancel_job call
    cjob,         \* job_id of the cancel_job call
    ncancels,     \* cancel_job calls that have returned True so far
    nfaults,      \* integrity faults so far
    \* history, read by the properties only
    passPending,  \* jobs pending when the pass fetched
    submits,      \* times the job was handed to executor.submit
    wasRunning,   \* jobs whose status has been written `running`
    notFound,     \* jobs whose execution found a row missing and returned
    centry,       \* status of cjob when cancel_job was called
    cvia,         \* path the call took: "future" (in-flight) or "store" (pending)
    cret,         \* value the call returned
    cchanged,     \* the call changed the status of cjob to cancelled
    trueCancels,  \* cancel_job calls per job that returned True
    \* the Video of each job and its owner (one owner)
    vstatus,      \* Video.status; "none" = row not created
    file_size,    \* Video.file_size
    checksum,     \* Video.checksum is not NULL
    file_path,    \* Video.file_path: "planned" name or "final" path in storage
    storage_used, \* User.storage_used of the owner
    progress,     \* ProcessingJob.progress, in percent
    \* execute_download past its first transaction
    step,         \* position of the worker within execute_download
    proc,         \* state of the yt-dlp process of the job
    partial,      \* the process has left a file at the output template
    temp_path,    \* temp_output_path of execute_download is not None
    fsize,        \* local file_size of execute_download
    ulocal,       \* user.storage_used as loaded by the final transaction
    \* delete_video call of a request handler
    dpc,          \* position of the call
    dvid,         \* video_id of the call
    dsize,        \* video.file_size as loaded by the call
    dused,        \* user.storage_used as loaded by the call
    ndeletes,     \* delete_video calls made so far
    \* shutdown
    shutdown_requested, \* DownloadManager.shutdown_requested
    pool_down,    \* executor.shutdown has been called
    spc,          \* position of the shutdown call
    swait,        \* its `wait` argument
    \* history, read by the properties only
    elapsed,      \* downloads.timeout_seconds have passed since the launch
    sizeWrites,   \* times Video.file_size has been written
    stimeout,     \* the timeout of the shutdown call has passed
    npassfaults,  \* exceptions raised inside scheduling passes so far
    \* messages of the failure
    error_message,  \* ProcessingJob.error_message: "none" or the message
    verror_message, \* Video.error_message: "none" or the message
    \* WebSocketManager
    loop,         \* self._loop: "none", "running" or "closed"
    active_connections, \* dict user_id -> set of connections
    sockets,      \* the connections opened so far, in order: state and user
    broadcasts,   \* the broadcast_to_user_sync calls so far, in order, each
                  \* with the locals of its broadcast_to_user coroutine
    \* the process output and the files of each job
    captured,     \* output of the CalledProcessError: the phrases it contains
    moves         \* the safe_move_file call of the job: what it found, what
                  \* it did

vars == << status, priority, created_at, videoRow, active_jobs, wake, exec,
           ppc, avail, fetched, idx, cpc, cjob, ncancels, nfaults,
           passPending, submits, wasRunning, notFound, centry, cvia, cret, cchanged,
           trueCancels, vstatus, file_size, checksum, file_path, storage_used,
           progress, step, proc, partial, temp_path, fsize, ulocal,
           dpc, dvid, dsize, dused, ndeletes,
           shutdown_requested, pool_down, spc, swait,
           elapsed, sizeWrites, stimeout, npassfaults,
           error_message, verror_message,
           loop, active_connections, sockets, broadcasts,
           captured, moves >>

storeVars == << status, priority, created_at, videoRow >>
pollVars == << ppc, avail, fetched, idx, passPending >>
cancelVars == << cpc, cjob, ncancels, centry, cvia, cret, cchanged, trueCancels >>
videoVars == << vstatus, file_size, checksum, file_path, sizeWrites >>
workVars == << step, proc, partial, temp_path, fsize, ulocal, elapsed >>
deleteVars == << dpc, dvid, dsize, dused, ndeletes >>
shutVars == << shutdown_requested, pool_down, spc, swait, stimeout >>
msgVars == << error_message, verror_message >>
wsVars == << loop, active_connections, sockets, broadcasts >>
fileVars == << captured, moves >>

\* No safe_move_file call yet.
NoMove == [called |-> FALSE]

Init ==
    /\ status = [j \in Jobs |-> "none"]
    /\ priority = [j \in Jobs |-> 0]
    /\ created_at = [j \in Jobs |-> 0]
    /\ videoRow = [j \in Jobs |-> FALSE]
    /\ active_jobs = {}
    /\ wake = FALSE
    /\ exec = [j \in Jobs |-> "none"]
    /\ ppc = "wait"
    /\ avail = 0
    /\ fetched = << >>
    /\ idx = 0
    /\ cpc = "idle"
    /\ cjob = 0
    /\ ncancels = 0
    /\ nfaults = 0
    /\ passPending = {}
    /\ submits = [j \in Jobs |-> 0]
    /\ wasRunning = {}
    /\ notFound = {}
    /\ centry = "none"
    /\ cvia = "none"
    /\ cret = FALSE
    /\ cchanged = FALSE
    /\ trueCancels = [j \in Jobs |-> 0]
    /\ vstatus = [j \in Jobs |-> "none"]
    /\ file_size = [j \in Jobs |-> 0]
    /\ checksum = [j \in Jobs |-> FALSE]
    /\ file_path = [j \in Jobs |-> "planned"]
    /\ storage_used = 0
    /\ progress = [j \in Jobs |-> 0]
    /\ step = [j \in Jobs |-> "idle"]
    /\ proc = [j \in Jobs |-> "none"]
    /\ partial = [j \in Jobs |-> FALSE]
    /\ temp_path = [j \in Jobs |-> FALSE]
    /\ fsize = [j \in Jobs |-> 0]
    /\ ulocal = [j \in Jobs |-> 0]
    /\ dpc = "idle"
    /\ dvid = 0
    /\ dsize = 0
    /\ dused = 0
    /\ ndeletes = 0
    /\ shutdown_requested = FALSE
    /\ pool_down = FALSE
    /\ spc = "idle"
    /\ swait = FALSE
    /\ elapsed = [j \in Jobs |-> FALSE]
    /\ sizeWrites = [j \in Jobs |-> 0]
    /\ stimeout = FALSE
    /\ npassfaults = 0
    /\ error_message = [j \in Jobs |-> "none"]
    /\ verror_message = [j \in Jobs |-> "none"]
    /\ loop = "unset"
    /\ active_connections = << >>
    /\ sockets = << >>
    /\ broadcasts = << >>
    /\ captured = [j \in Jobs |-> {}]
    /\ moves = [j \in Jobs |-> NoMove]

\* ------------------------------------------------------------ submission
\* submit_download: Video (processing) and ProcessingJob (pending) rows are
\* committed together, then notify_job_submitted sets the wake flag.
submit_download(p, t) ==
    /\ \E j \in Jobs :
          /\ status[j] = "none"
          /\ \A k \in Jobs : k < j => status[k] # "none"
          /\ status' = [status EXCEPT ![j] = "pending"]
          /\ priority' = [priority EXCEPT ![j] = p]
          /\ created_at' = [created_at EXCEPT ![j] = t]
          /\ videoRow' = [videoRow EXCEPT ![j] = TRUE]
          /\ vstatus' = [vstatus EXCEPT ![j] = "processing"]
          /\ file_size' = [file_size EXCEPT ![j] = 0]
          /\ checksum' = [checksum EXCEPT ![j] = FALSE]
          /\ file_path' = [file_path EXCEPT ![j] = "planned"]
          /\ UNCHANGED sizeWrites
    /\ wake' = TRUE
    /\ UNCHANGED << storage_used, progress, workVars, deleteVars, shutVars, npassfaults,
                    msgVars, wsVars, fileVars >>
    /\ UNCHANGED << active_jobs, exec, pollVars, cancelVars, nfaults, submits, wasRunning, notFound >>

\* Integrity fault: the Video row of a job disappears out of band.
LoseVideoRow(j) ==
    /\ nfaults < MaxFaults
    /\ status[j] # "none"
    /\ videoRow[j]
    /\ videoRow' = [videoRow EXCEPT ![j] = FALSE]
    /\ nfaults' = nfaults + 1
    /\ UNCHANGED << videoVars, storage_used, progress, workVars, deleteVars, shutVars, npassfaults,
                    msgVars, wsVars, fileVars >>
    /\ UNCHANGED << status, priority, created_at, active_jobs, wake, exec,
                    pollVars, cancelVars, submits, wasRunning, notFound >>

\* ---------------------------------------------------------------- poller
Active == Cardinality(active_jobs)

\* The order by created_at alone (priority ignored).
SortsBeforeCreatedOnly(a, b) ==
    created_at[a] < created_at[b]

\* order_by(priority.desc(), created_at.asc()): a sorts strictly before b.
SortsBefore(a, b) ==
    \/ priority[a] > priority[b]
    \/ priority[a] = priority[b] /\ created_at[a] < created_at[b]

\* The query without the filter on the pending status alone.
PendingJobsAnyLive == {j \in Jobs : status[j] \in {"pending", "running"}}

\* filter(job_type == 'download', status == 'pending'): every job is a download.
PendingJobs == {j \in Jobs : status[j] = "pending"}

Min(a, b) == IF a < b THEN a ELSE b

\* The query without .limit(count): every pending row, in order.
FetchPendingNoLimit(count) ==
    LET P == PendingJobs
        n == Cardinality(P)
    IN  {s \in [1..n -> P] :
            /\ \A i, k \in 1..n : i < k => s[i] # s[k] /\ ~SortsBefore(s[k], s[i])
            /\ \A b \in P : (\A i \in 1..n : s[i] # b) =>
                              \A i \in 1..n : ~SortsBefore(b, s[i])}

\* The results .order_by(...).limit(count).all() may return: the first `count`
\* rows of an ordering of the pending jobs; rows equal in both keys come in
\* any order.
FetchPending(count) ==
    LET P == PendingJobs
        n == Min(count, Cardinality(P))
    IN  {s \in [1..n -> P] :
            /\ \A i, k \in 1..n : i < k => s[i] # s[k] /\ ~SortsBefore(s[k], s[i])
            /\ \A b \in P : (\A i \in 1..n : s[i] # b) =>
                              \A i \in 1..n : ~SortsBefore(b, s[i])}

\* while not self.shutdown_requested: shutdown_flag.wait(timeout=5.0) returns
\* at once when the flag is set, else after the timeout with the flag still
\* clear.
poll_wait ==
    /\ ppc = "wait"
    /\ ppc' = IF shutdown_requested THEN "stopped"
              ELSE IF wake THEN "clear" ELSE "slots"
    /\ UNCHANGED << videoVars, storage_used, progress, workVars, deleteVars, shutVars, npassfaults,
                    msgVars, wsVars, fileVars >>
    /\ UNCHANGED << storeVars, active_jobs, wake, exec, avail, fetched, idx,
                    passPending, cancelVars, nfaults, submits, wasRunning, notFound >>

\* The flag cleared with the loop going back to its wait, no pass in between.
poll_clear_then_wait ==
    /\ ppc = "clear"
    /\ wake' = FALSE
    /\ ppc' = "wait"
    /\ UNCHANGED << videoVars, storage_used, progress, workVars, deleteVars, shutVars, npassfaults,
                    msgVars, wsVars, fileVars >>
    /\ UNCHANGED << storeVars, active_jobs, exec, avail, fetched, idx,
                    passPending, cancelVars, nfaults, submits, wasRunning, notFound >>

\* if signaled: shutdown_flag.clear()
poll_clear ==
    /\ ppc = "clear"
    /\ wake' = FALSE
    /\ ppc' = "slots"
    /\ UNCHANGED << videoVars, storage_used, progress, workVars, deleteVars, shutVars, npassfaults,
                    msgVars, wsVars, fileVars >>
    /\ UNCHANGED << storeVars, active_jobs, exec, avail, fetched, idx,
                    passPending, cancelVars, nfaults, submits, wasRunning, notFound >>

\* if self.shutdown_requested: break
\* with self.lock: available_slots = max_workers - len(active_jobs)
poll_slots ==
    /\ ppc = "slots"
    /\ IF shutdown_requested
          THEN avail' = 0 /\ ppc' = "stopped"
          ELSE IF max_workers - Active > 0
          THEN avail' = max_workers - Active /\ ppc' = "fetch"
          ELSE avail' = 0 /\ ppc' = "wait"
    /\ UNCHANGED << videoVars, storage_used, progress, workVars, deleteVars, shutVars, npassfaults,
                    msgVars, wsVars, fileVars >>
    /\ UNCHANGED << storeVars, active_jobs, wake, exec, fetched, idx,
                    passPending, cancelVars, nfaults, submits, wasRunning, notFound >>

\* _schedule_pending_jobs: the query for the pending jobs.
schedule_fetch ==
    /\ ppc = "fetch"
    /\ \E s \in FetchPending(avail) :
          /\ fetched' = s
          /\ IF Len(s) = 0
                THEN ppc' = "wait" /\ idx' = 0 /\ passPending' = {} /\ avail' = 0
                ELSE ppc' = "submit" /\ idx' = 1 /\ passPending' = PendingJobs
                     /\ avail' = avail
    /\ UNCHANGED << videoVars, storage_used, progress, workVars, deleteVars, shutVars, npassfaults,
                    msgVars, wsVars, fileVars >>
    /\ UNCHANGED << storeVars, active_jobs, wake, exec,
                    cancelVars, nfaults, submits, wasRunning, notFound >>

\* The pass leaves the job at idx (an exception caught by the inner except)
\* and goes on with the next one, or ends.
skip_job ==
    IF idx < Len(fetched)
       THEN /\ idx' = idx + 1
            /\ ppc' = "submit"
            /\ UNCHANGED << fetched, passPending, avail >>
       ELSE /\ idx' = 0
            /\ avail' = 0
            /\ ppc' = "wait"
            /\ fetched' = << >>
            /\ passPending' = {}

\* executor.submit(...) and add_done_callback(...): a new Future, queued.
\* After executor.shutdown, submit raises RuntimeError and the inner except
\* goes on with the next job.
schedule_submit ==
    /\ ppc = "submit"
    /\ IF pool_down
          THEN /\ skip_job
               /\ UNCHANGED << exec, submits >>
          ELSE /\ LET j == fetched[idx] IN
                     /\ exec' = [exec EXCEPT ![j] = "queued"]
                     /\ submits' = [submits EXCEPT ![j] = Min(@ + 1, 2)]
               /\ ppc' = "register"
               /\ UNCHANGED << avail, fetched, idx, passPending >>
    /\ UNCHANGED << videoVars, storage_used, progress, workVars, deleteVars, shutVars, npassfaults,
                    msgVars, wsVars, fileVars >>
    /\ UNCHANGED << storeVars, active_jobs, wake,
                    cancelVars, nfaults, wasRunning, notFound >>

\* with self.lock: active_jobs[job.id] = future
schedule_register ==
    /\ ppc = "register"
    /\ active_jobs' = active_jobs \cup {fetched[idx]}
    /\ ppc' = "commit"
    /\ UNCHANGED << videoVars, storage_used, progress, workVars, deleteVars, shutVars, npassfaults,
                    msgVars, wsVars, fileVars >>
    /\ UNCHANGED << storeVars, wake, exec, avail, fetched, idx,
                    passPending, cancelVars, nfaults, submits, wasRunning, notFound >>

\* job.status = 'running'; session.commit(): the UPDATE is by primary key,
\* whatever the row's status is now.
CommitRunning(j) ==
    /\ status' = [status EXCEPT ![j] = "running"]
    /\ wasRunning' = wasRunning \cup {j}

schedule_commit ==
    /\ ppc = "commit"
    /\ CommitRunning(fetched[idx])
    /\ IF idx < Len(fetched)
          THEN /\ idx' = idx + 1
               /\ ppc' = "submit"
               /\ UNCHANGED << fetched, passPending, avail >>
          ELSE /\ idx' = 0
               /\ avail' = 0
               /\ ppc' = "wait"
               /\ fetched' = << >>
               /\ passPending' = {}
    /\ UNCHANGED << videoVars, storage_used, progress, workVars, deleteVars, shutVars, npassfaults,
                    msgVars, wsVars, fileVars >>
    /\ UNCHANGED << priority, created_at, videoRow, active_jobs, wake, exec,
                    cancelVars, nfaults, submits, notFound >>

\* ------------------------------------------------------- pool and worker
\* exec[j]: "none" not submitted; "queued" Future PENDING in the pool's queue;
\* "picked" Future RUNNING, execute_download about to load its rows;
\* "loaded" rows loaded and `running` committed, download under way;
\* "done" execute_download has returned, the Future is FINISHED and its done
\* callback has run; "cancelled" Future CANCELLED and its callback has run.
BusyThreads == Cardinality({j \in Jobs : exec[j] \in {"picked", "loaded"}})

\* A pool thread takes the work item: set_running_or_notify_cancel.
worker_pick(j) ==
    /\ exec[j] = "queued"
    /\ BusyThreads < max_workers
    /\ exec' = [exec EXCEPT ![j] = "picked"]
    /\ UNCHANGED << videoVars, storage_used, progress, workVars, deleteVars, shutVars, npassfaults,
                    msgVars, wsVars, fileVars >>
    /\ UNCHANGED << storeVars, active_jobs, wake, pollVars, cancelVars,
                    nfaults, submits, wasRunning, notFound >>

\* A load that does not record `running` itself.
LoadNoWrite(j) ==
    UNCHANGED << status, wasRunning, progress >>

\* execute_download, first transaction: job.status = 'running', progress 0.
LoadWrite(j) ==
    /\ status' = [status EXCEPT ![j] = "running"]
    /\ progress' = [progress EXCEPT ![j] = 0]
    /\ wasRunning' = wasRunning \cup {j}

\* _cleanup_job: active_jobs.pop(job_id, None); shutdown_flag.set()
cleanup_job(j) ==
    /\ active_jobs' = active_jobs \ {j}
    /\ wake' = TRUE

\* The wrapper returns, the Future is FINISHED and its done callback runs on
\* the pool thread.
future_done(j) ==
    /\ exec' = [exec EXCEPT ![j] = "done"]
    /\ cleanup_job(j)

\* execute_download, lines 55-74: load the job and its video. A missing row
\* returns False with nothing written and the Future is done.
execute_load(j) ==
    /\ exec[j] = "picked"
    /\ IF status[j] = "none" \/ ~videoRow[j]
          THEN /\ future_done(j)
               /\ notFound' = notFound \cup {j}
               /\ UNCHANGED << status, wasRunning, progress >>
          ELSE /\ exec' = [exec EXCEPT ![j] = "loaded"]
               /\ LoadWrite(j)
               /\ UNCHANGED << active_jobs, wake, notFound >>
    /\ UNCHANGED << videoVars, storage_used, workVars, deleteVars, shutVars, npassfaults,
                    msgVars, wsVars, fileVars >>
    /\ UNCHANGED << priority, created_at, videoRow,
                    pollVars, cancelVars, nfaults, submits >>

\* _mark_job_failed, the job (lines 367-374): if job: job.status = 'failed'.
mark_job_failed(j) ==
    status' = [status EXCEPT ![j] = IF @ = "none" THEN @ ELSE "failed"]

\* execute_download, lines 78-177, followed for the job row only and as one
\* step: the download and the final transaction, then the return through the
\* wrapper. The video and the owner are followed by the steps of SpecProcess, SpecFailure and SpecStorage.
\* success: the video and the job are re-read and the job is set completed;
\* a video row gone by then raises and the handler marks the job failed.
\* process_error: CalledProcessError, _handle_subprocess_error.
\* exception: timeout, output file not found, move refused.
execute_finish(j, outcome) ==
    /\ exec[j] = "loaded"
    /\ step[j] = "idle"
    /\ IF outcome = "success" /\ videoRow[j]
          THEN status' = [status EXCEPT ![j] = "completed"]
          ELSE mark_job_failed(j)
    /\ future_done(j)
    /\ UNCHANGED << videoVars, storage_used, progress, workVars, deleteVars, shutVars, npassfaults,
                    msgVars, wsVars, fileVars >>
    /\ UNCHANGED << priority, created_at, videoRow,
                    pollVars, cancelVars, nfaults, submits, wasRunning, notFound >>

\* ------------------------------------------- execute_download, step by step
\* step[j]: "idle" before the first progress update; "popen" before the
\* launch; "reading" in the loop over process.stdout; "waiting" in
\* process.wait(timeout); "found" with the output file in hand; "checksum",
\* "move", "final", "commit" before the step of that name; "size_error",
\* "proc_error" with CalledProcessError raised; "timeout", "exception" with
\* another exception raised.
Failures == {"size_error", "proc_error", "timeout", "exception"}

\* execute_download returns: its locals and the process object are gone.
return_locals(j) ==
    /\ step' = [step EXCEPT ![j] = "idle"]
    /\ proc' = [proc EXCEPT ![j] = "none"]
    /\ partial' = [partial EXCEPT ![j] = FALSE]
    /\ temp_path' = [temp_path EXCEPT ![j] = FALSE]
    /\ fsize' = [fsize EXCEPT ![j] = 0]
    /\ ulocal' = [ulocal EXCEPT ![j] = 0]
    /\ elapsed' = [elapsed EXCEPT ![j] = FALSE]

\* _update_job_progress: job.progress = min(progress, 100.0), committed.
update_job_progress(j, value) ==
    progress' = [progress EXCEPT ![j] = Min(value, 100)]

\* scaled_progress = 5.0 + percent * 0.65
Scaled(percent) == 5 + (percent * 65) \div 100

\* line 89: _update_job_progress(job_id, 5.0, 'Starting download')
progress_start(j) ==
    /\ exec[j] = "loaded"
    /\ step[j] = "idle"
    /\ update_job_progress(j, 5)
    /\ step' = [step EXCEPT ![j] = "popen"]
    /\ UNCHANGED << storeVars, active_jobs, wake, exec, pollVars, cancelVars,
                    nfaults, submits, wasRunning, notFound, videoVars,
                    storage_used, proc, partial, temp_path, fsize, ulocal,
                    elapsed, deleteVars, shutVars, npassfaults,
                    msgVars, wsVars, fileVars >>

\* subprocess.Popen(cmd, stdout=PIPE, ...)
launch_process(j) ==
    /\ step[j] = "popen"
    /\ proc' = [proc EXCEPT ![j] = "running"]
    /\ step' = [step EXCEPT ![j] = "reading"]
    /\ UNCHANGED << storeVars, active_jobs, wake, exec, pollVars, cancelVars,
                    nfaults, submits, wasRunning, notFound, videoVars,
                    storage_used, progress, partial, temp_path, fsize, ulocal,
                    elapsed, deleteVars, shutVars, npassfaults,
                    msgVars, wsVars, fileVars >>

\* for line in process.stdout: a progress line with a percentage that is not
\* zero is written unless the last write is less than 2 seconds old (due).
read_line(j, percent, due) ==
    /\ step[j] = "reading"
    /\ proc[j] = "running"
    /\ IF percent # 0 /\ due
          THEN update_job_progress(j, Scaled(percent))
          ELSE UNCHANGED progress
    /\ UNCHANGED << storeVars, active_jobs, wake, exec, pollVars, cancelVars,
                    nfaults, submits, wasRunning, notFound, videoVars,
                    storage_used, step, proc, partial, temp_path, fsize, ulocal,
                    elapsed, deleteVars, shutVars, npassfaults,
                    msgVars, wsVars, fileVars >>

\* The process closes its output: the loop over process.stdout ends.
close_output(j) ==
    /\ step[j] = "reading"
    /\ proc[j] = "running"
    /\ proc' = [proc EXCEPT ![j] = "closed"]
    /\ step' = [step EXCEPT ![j] = "waiting"]
    /\ UNCHANGED << storeVars, active_jobs, wake, exec, pollVars, cancelVars,
                    nfaults, submits, wasRunning, notFound, videoVars,
                    storage_used, progress, partial, temp_path, fsize, ulocal,
                    elapsed, deleteVars, shutVars, npassfaults,
                    msgVars, wsVars, fileVars >>

\* downloads.timeout_seconds pass after the launch with the process alive.
\* Nothing in the loop over process.stdout looks at the clock.
timeout_elapses(j) ==
    /\ proc[j] \in {"running", "closed"}
    /\ ~elapsed[j]
    /\ elapsed' = [elapsed EXCEPT ![j] = TRUE]
    /\ UNCHANGED << storeVars, active_jobs, wake, exec, pollVars, cancelVars,
                    nfaults, submits, wasRunning, notFound, videoVars,
                    storage_used, progress, step, proc, partial, temp_path,
                    fsize, ulocal, deleteVars, shutVars, npassfaults,
                    msgVars, wsVars, fileVars >>

\* process.wait(timeout) returns the exit code.
\* result "file": code 0 and _find_downloaded_file finds the output;
\* "nofile": code 0 and no output, 'output file not found' is raised;
\* "max_filesize", "other": a code that is not 0, CalledProcessError with
\* the captured output is raised out of _execute_download_subprocess, so
\* temp_output_path keeps its None. hasPartial: the process left a file.
wait_returns(j, result, hasPartial) ==
    /\ step[j] = "waiting"
    /\ proc[j] = "closed"
    /\ proc' = [proc EXCEPT ![j] = "exited"]
    /\ partial' = [partial EXCEPT ![j] = IF result = "file" THEN TRUE
                                         ELSE IF result = "nofile" THEN FALSE
                                         ELSE hasPartial]
    /\ temp_path' = [temp_path EXCEPT ![j] = (result = "file")]
    /\ step' = [step EXCEPT ![j] =
                   CASE result = "file" -> "found"
                     [] result = "nofile" -> "exception"
                     [] result = "max_filesize" -> "size_error"
                     [] OTHER -> "proc_error"]
    /\ captured' = [captured EXCEPT ![j] =
                       CASE result = "max_filesize" -> {"max-filesize"}
                         [] result = "other" -> {}
                         [] OTHER -> @]
    /\ UNCHANGED << storeVars, active_jobs, wake, exec, pollVars, cancelVars,
                    nfaults, submits, wasRunning, notFound, videoVars,
                    storage_used, progress, fsize, ulocal,
                    elapsed, deleteVars, shutVars, npassfaults,
                    msgVars, wsVars, moves >>

\* The phrases _handle_subprocess_error looks for in the output.
Phrases ==
    {"File is larger than max-filesize", "max-filesize", "Unsupported URL",
     "is not a valid URL", "Video unavailable", "Private video"}

\* An output of the process, as the set of the phrases that occur in it.
Outputs == SUBSET Phrases

\* phrase in error_output: "max-filesize" is a substring of "File is larger
\* than max-filesize".
In(phrase, error_output) ==
    \/ phrase \in error_output
    \/ /\ phrase = "max-filesize"
       /\ "File is larger than max-filesize" \in error_output

\* process.wait(timeout) returns a code that is not 0 with any output:
\* CalledProcessError(output=full_output) is raised (lines 236-241) and
\* caught at line 166 with temp_output_path None.
wait_fails(j, error_output, hasPartial) ==
    /\ step[j] = "waiting"
    /\ proc[j] = "closed"
    /\ proc' = [proc EXCEPT ![j] = "exited"]
    /\ partial' = [partial EXCEPT ![j] = hasPartial]
    /\ temp_path' = [temp_path EXCEPT ![j] = FALSE]
    /\ captured' = [captured EXCEPT ![j] = error_output]
    /\ step' = [step EXCEPT ![j] =
                   IF In("File is larger than max-filesize", error_output)
                      \/ In("max-filesize", error_output)
                      THEN "size_error" ELSE "proc_error"]
    /\ UNCHANGED << storeVars, active_jobs, wake, exec, pollVars, cancelVars,
                    nfaults, submits, wasRunning, notFound, videoVars,
                    storage_used, progress, fsize, ulocal,
                    elapsed, deleteVars, shutVars, npassfaults,
                    msgVars, wsVars, moves >>

\* process.wait(timeout) raises TimeoutExpired: process.kill(),
\* process.wait(), raise.
wait_timeout(j) ==
    /\ step[j] = "waiting"
    /\ proc[j] = "closed"
    /\ proc' = [proc EXCEPT ![j] = "killed"]
    /\ elapsed' = [elapsed EXCEPT ![j] = TRUE]
    /\ step' = [step EXCEPT ![j] = "timeout"]
    /\ UNCHANGED << storeVars, active_jobs, wake, exec, pollVars, cancelVars,
                    nfaults, submits, wasRunning, notFound, videoVars,
                    storage_used, progress, partial, temp_path, fsize, ulocal,
                    deleteVars, shutVars, npassfaults,
                    msgVars, wsVars, fileVars >>

\* line 111: _update_job_progress(job_id, 70.0, 'Calculating checksum')
progress_checksum(j) ==
    /\ step[j] = "found"
    /\ update_job_progress(j, 70)
    /\ step' = [step EXCEPT ![j] = "checksum"]
    /\ UNCHANGED << storeVars, active_jobs, wake, exec, pollVars, cancelVars,
                    nfaults, submits, wasRunning, notFound, videoVars,
                    storage_used, proc, partial, temp_path, fsize, ulocal,
                    elapsed, deleteVars, shutVars, npassfaults,
                    msgVars, wsVars, fileVars >>

\* lines 114-120: get_file_size and calculate_file_checksum, then
\* _update_job_progress(job_id, 80.0, ...); a FileOperationError is raised
\* instead when the file cannot be read.
checksum_file(j, sz, ok) ==
    /\ step[j] = "checksum"
    /\ IF ok
          THEN /\ fsize' = [fsize EXCEPT ![j] = sz]
               /\ update_job_progress(j, 80)
               /\ step' = [step EXCEPT ![j] = "move"]
          ELSE /\ step' = [step EXCEPT ![j] = "exception"]
               /\ UNCHANGED << fsize, progress >>
    /\ UNCHANGED << storeVars, active_jobs, wake, exec, pollVars, cancelVars,
                    nfaults, submits, wasRunning, notFound, videoVars,
                    storage_used, proc, partial, temp_path, ulocal,
                    elapsed, deleteVars, shutVars, npassfaults,
                    msgVars, wsVars, fileVars >>

\* lines 123-136: safe_move_file into the storage, then
\* _update_job_progress(job_id, 90.0, ...); safe_move_file raises
\* FileOperationError when it refuses the move.
move_file(j, ok) ==
    /\ step[j] = "move"
    /\ IF ok
          THEN /\ update_job_progress(j, 90)
               /\ step' = [step EXCEPT ![j] = "final"]
          ELSE /\ step' = [step EXCEPT ![j] = "exception"]
               /\ UNCHANGED progress
    /\ UNCHANGED << storeVars, active_jobs, wake, exec, pollVars, cancelVars,
                    nfaults, submits, wasRunning, notFound, videoVars,
                    storage_used, proc, partial, temp_path, fsize, ulocal,
                    elapsed, deleteVars, shutVars, npassfaults,
                    msgVars, wsVars, fileVars >>

\* What safe_move_file may be given and may find: the source is a file, is
\* missing or is a directory; dest_dir resolves inside or outside of the
\* storage root; the filename is plain, has path components in front of its
\* name, or has no name ('', '.', '..'); at dest_dir/name there is nothing or
\* a file.
Sources == {"file", "missing", "directory"}
Places == {"inside", "outside"}
Filenames == {"plain", "nested", "dots"}
Entries == {"absent", "file"}

\* The call raises FileOperationError: nothing is moved, nothing is created.
refused(dest_dir, dest) ==
    [called |-> TRUE, dir |-> dest_dir, found |-> dest, raised |-> TRUE,
     moved |-> FALSE, dest_now |-> dest, placed |-> "none"]

\* shutil.move(src_path, dest_dir_path / Path(filename).name): the file is
\* now in dest_dir under the name without its path components.
relocated(dest_dir, dest) ==
    [called |-> TRUE, dir |-> dest_dir, found |-> dest, raised |-> FALSE,
     moved |-> TRUE, dest_now |-> "moved", placed |-> dest_dir]

\* safe_move_file without its check of the destination: the move replaces
\* what is there.
safe_move_file_unchecked(src, dest_dir, filename, dest) ==
    IF src # "file" THEN refused(dest_dir, dest)
    ELSE IF dest_dir = "outside" THEN refused(dest_dir, dest)
    ELSE IF filename = "dots" THEN refused(dest_dir, dest)
    ELSE relocated(dest_dir, dest)

\* safe_move_file(src, dest_dir, filename, storage_root), in the order of its
\* checks: the source exists and is a file; dest_dir resolved is relative to
\* the root resolved; the filename has a name; the destination does not
\* exist; then mkdir and shutil.move.
safe_move_file(src, dest_dir, filename, dest) ==
    IF src # "file" THEN refused(dest_dir, dest)
    ELSE IF dest_dir = "outside" THEN refused(dest_dir, dest)
    ELSE IF filename = "dots" THEN refused(dest_dir, dest)
    ELSE IF dest # "absent" THEN refused(dest_dir, dest)
    ELSE relocated(dest_dir, dest)

\* lines 123-136 with the call followed into safe_move_file: a
\* FileOperationError goes to the except Exception of execute_download.
safe_move(j, src, dest_dir, filename, dest) ==
    /\ step[j] = "move"
    /\ LET result == safe_move_file(src, dest_dir, filename, dest) IN
          /\ moves' = [moves EXCEPT ![j] = result]
          /\ IF result.raised
                THEN /\ step' = [step EXCEPT ![j] = "exception"]
                     /\ UNCHANGED progress
                ELSE /\ update_job_progress(j, 90)
                     /\ step' = [step EXCEPT ![j] = "final"]
    /\ UNCHANGED << storeVars, active_jobs, wake, exec, pollVars, cancelVars,
                    nfaults, submits, wasRunning, notFound, videoVars,
                    storage_used, proc, partial, temp_path, fsize, ulocal,
                    elapsed, deleteVars, shutVars, npassfaults,
                    msgVars, wsVars, captured >>

\* lines 139-157: the final transaction loads the video, the job and the
\* owner; READ COMMITTED, the owner's row is not locked by the load.
final_read(j) ==
    /\ step[j] = "final"
    /\ ulocal' = [ulocal EXCEPT ![j] = storage_used]
    /\ step' = [step EXCEPT ![j] = "commit"]
    /\ UNCHANGED << storeVars, active_jobs, wake, exec, pollVars, cancelVars,
                    nfaults, submits, wasRunning, notFound, videoVars,
                    storage_used, progress, proc, partial, temp_path, fsize,
                    elapsed, deleteVars, shutVars, npassfaults,
                    msgVars, wsVars, fileVars >>

\* The final transaction with the video left in status processing.
FinalizeKeepsProcessing(j, sz, used) ==
    /\ vstatus' = vstatus
    /\ file_path' = [file_path EXCEPT ![j] = "final"]
    /\ file_size' = [file_size EXCEPT ![j] = sz]
    /\ checksum' = [checksum EXCEPT ![j] = TRUE]
    /\ sizeWrites' = [sizeWrites EXCEPT ![j] = Min(@ + 1, 2)]
    /\ status' = [status EXCEPT ![j] = "completed"]
    /\ progress' = [progress EXCEPT ![j] = 100]
    /\ storage_used' = used + sz

\* lines 143-161: the video becomes ready with path, size and checksum, the
\* job completed with progress 100, and user.storage_used += file_size is
\* the UPDATE of the value loaded plus the size.
FinalizeSuccess(j, sz, used) ==
    /\ vstatus' = [vstatus EXCEPT ![j] = "ready"]
    /\ file_path' = [file_path EXCEPT ![j] = "final"]
    /\ file_size' = [file_size EXCEPT ![j] = sz]
    /\ checksum' = [checksum EXCEPT ![j] = TRUE]
    /\ sizeWrites' = [sizeWrites EXCEPT ![j] = Min(@ + 1, 2)]
    /\ status' = [status EXCEPT ![j] = "completed"]
    /\ progress' = [progress EXCEPT ![j] = 100]
    /\ storage_used' = used + sz

\* session.commit() of the final transaction; return True and the Future is
\* done.
final_commit(j) ==
    /\ step[j] = "commit"
    /\ FinalizeSuccess(j, fsize[j], ulocal[j])
    /\ verror_message' = [verror_message EXCEPT ![j] = "none"]
    /\ return_locals(j)
    /\ future_done(j)
    /\ UNCHANGED << priority, created_at, videoRow, pollVars, cancelVars,
                    nfaults, submits, wasRunning, notFound,
                    deleteVars, shutVars, npassfaults,
                    error_message, wsVars, fileVars >>

\* _mark_job_failed, the video (lines 376-381) marked with size, checksum and
\* path rewritten as well.
\* _mark_job_failed without its update of the video.
mark_video_error_skipped(j) ==
    UNCHANGED << vstatus, file_size, checksum, file_path, sizeWrites >>

mark_video_error_resized(j) ==
    /\ vstatus' = [vstatus EXCEPT ![j] = IF videoRow[j] THEN "error" ELSE @]
    /\ file_size' = [file_size EXCEPT ![j] = fsize[j]]
    /\ checksum' = [checksum EXCEPT ![j] = fsize[j] # 0]
    /\ file_path' = [file_path EXCEPT ![j] = IF fsize[j] # 0 THEN "final" ELSE @]
    /\ sizeWrites' = [sizeWrites EXCEPT ![j] = IF fsize[j] # 0 THEN Min(@ + 1, 2) ELSE @]

\* _mark_job_failed, the video (lines 376-381): video.status = 'error';
\* size, checksum and path are not touched.
mark_video_error(j) ==
    /\ vstatus' = [vstatus EXCEPT ![j] = IF videoRow[j] THEN "error" ELSE @]
    /\ UNCHANGED << file_size, checksum, file_path, sizeWrites >>

\* _handle_subprocess_error with the size-limit message: the partial file
\* is kept if temp_file and os.path.exists(temp_file) (size, checksum, move,
\* and the video written error with them), then _mark_job_failed.
\* Other messages and the except Exception handler: _mark_job_failed alone.
\* Return False and the Future is done.
\* error_msg of the handler that catches the failure: the size-limit text,
\* the text chosen from the output of the process, or "Unexpected error: ..."
\* of the generic handler.
\* The chain of lines 305-345 with 'Private video' looked for before
\* 'Video unavailable'.
error_msg_private_first(error_output) ==
    IF In("File is larger than max-filesize", error_output)
       \/ In("max-filesize", error_output) THEN "size_limit"
    ELSE IF In("Unsupported URL", error_output)
            \/ In("is not a valid URL", error_output) THEN "unsupported"
    ELSE IF In("Private video", error_output) THEN "private"
    ELSE IF In("Video unavailable", error_output) THEN "unavailable"
    ELSE "download"

\* error_msg of _handle_subprocess_error, lines 305-345: the if/elif chain
\* over error_output; "download" is f"Download failed: {error_output[:200]}".
error_msg(error_output) ==
    IF In("File is larger than max-filesize", error_output)
       \/ In("max-filesize", error_output) THEN "size_limit"
    ELSE IF In("Unsupported URL", error_output)
            \/ In("is not a valid URL", error_output) THEN "unsupported"
    ELSE IF In("Video unavailable", error_output) THEN "unavailable"
    ELSE IF In("Private video", error_output) THEN "private"
    ELSE "download"

FailureMessage(class, error_output) ==
    IF class \in {"size_error", "proc_error"} THEN error_msg(error_output)
    ELSE "unexpected"

handle_failure(j, sz) ==
    /\ step[j] \in Failures
    /\ mark_job_failed(j)
    /\ error_message' = [error_message EXCEPT ![j] =
                            IF status[j] = "none" THEN @ ELSE FailureMessage(step[j], captured[j])]
    /\ verror_message' = [verror_message EXCEPT ![j] =
                             IF videoRow[j] THEN FailureMessage(step[j], captured[j]) ELSE @]
    /\ IF step[j] = "size_error" /\ temp_path[j] /\ partial[j]
          THEN /\ vstatus' = [vstatus EXCEPT ![j] = "error"]
               /\ file_path' = [file_path EXCEPT ![j] = "final"]
               /\ file_size' = [file_size EXCEPT ![j] = sz]
               /\ checksum' = [checksum EXCEPT ![j] = TRUE]
               /\ sizeWrites' = [sizeWrites EXCEPT ![j] = Min(@ + 1, 2)]
          ELSE mark_video_error(j)
    /\ return_locals(j)
    /\ future_done(j)
    /\ UNCHANGED << priority, created_at, videoRow, pollVars, cancelVars,
                    nfaults, submits, wasRunning, notFound, storage_used,
                    progress, deleteVars, shutVars, npassfaults, wsVars, fileVars >>

\* Lines 78-136 as one step: from the first progress update to the last one
\* before the final transaction, or to the exception raised on the way.
\* percent: the percentage of the last progress line written (0: none).
\* result: "file" the output file of size sz, measured, moved into storage;
\* "nofile", "checksum_error", "move_error" the exceptions of lines 106,
\* 114-115 and 126; "max_filesize", "other" CalledProcessError; "timeout"
\* TimeoutExpired. hasPartial: a failed process left a file.
DownloadResults ==
    {"file", "nofile", "checksum_error", "move_error", "max_filesize", "other",
     "timeout"}

download(j, percent, result, sz, hasPartial) ==
    /\ exec[j] = "loaded"
    /\ step[j] = "idle"
    /\ proc' = [proc EXCEPT ![j] = IF result = "timeout" THEN "killed" ELSE "exited"]
    /\ elapsed' = [elapsed EXCEPT ![j] = (result = "timeout")]
    /\ partial' = [partial EXCEPT ![j] =
                      CASE result \in {"file", "checksum_error", "move_error"} -> TRUE
                        [] result \in {"max_filesize", "other"} -> hasPartial
                        [] OTHER -> FALSE]
    /\ temp_path' = [temp_path EXCEPT ![j] =
                        result \in {"file", "checksum_error", "move_error"}]
    /\ fsize' = [fsize EXCEPT ![j] =
                    IF result \in {"file", "move_error"} THEN sz ELSE 0]
    /\ update_job_progress(j,
          CASE result = "file" -> 90
            [] result = "move_error" -> 80
            [] result = "checksum_error" -> 70
            [] OTHER -> IF percent # 0 THEN Scaled(percent) ELSE 5)
    /\ step' = [step EXCEPT ![j] =
                   CASE result = "file" -> "final"
                     [] result = "max_filesize" -> "size_error"
                     [] result = "other" -> "proc_error"
                     [] result = "timeout" -> "timeout"
                     [] OTHER -> "exception"]
    /\ captured' = [captured EXCEPT ![j] =
                       CASE result = "max_filesize" -> {"max-filesize"}
                         [] result = "other" -> {}
                         [] OTHER -> @]
    /\ UNCHANGED << storeVars, active_jobs, wake, exec, pollVars, cancelVars,
                    nfaults, submits, wasRunning, notFound, videoVars,
                    storage_used, ulocal, deleteVars, shutVars, npassfaults,
                    msgVars, wsVars, moves >>

\* ---------------------------------------------------------- delete_video
Max(a, b) == IF a > b THEN a ELSE b

\* The new storage_used without the floor at zero.
StorageAfterDeleteNoFloor(used, size) == used - size

\* user.storage_used = max(0, user.storage_used - video.file_size)
StorageAfterDelete(used, size) == Max(0, used - size)

\* delete_video by the owner: the video and the owner are loaded.
delete_load(v) ==
    /\ dpc = "idle"
    /\ ndeletes < MaxDeletes
    /\ vstatus[v] # "none"
    /\ dvid' = v
    /\ dsize' = file_size[v]
    /\ dused' = storage_used
    /\ dpc' = "commit"
    /\ ndeletes' = ndeletes + 1
    /\ UNCHANGED << storeVars, active_jobs, wake, exec, pollVars, cancelVars,
                    nfaults, submits, wasRunning, notFound, videoVars,
                    storage_used, progress, workVars, shutVars, npassfaults,
                    msgVars, wsVars, fileVars >>

\* video.status = 'deleted'; if user and video.file_size > 0: the owner's
\* storage_used is set from the values loaded; db.commit().
delete_commit ==
    /\ dpc = "commit"
    /\ vstatus' = [vstatus EXCEPT ![dvid] = "deleted"]
    /\ storage_used' = IF dsize > 0 THEN StorageAfterDelete(dused, dsize)
                       ELSE storage_used
    /\ dpc' = "idle"
    /\ dvid' = 0
    /\ dsize' = 0
    /\ dused' = 0
    /\ UNCHANGED << storeVars, active_jobs, wake, exec, pollVars, cancelVars,
                    nfaults, submits, wasRunning, notFound, file_size, checksum,
                    file_path, sizeWrites, progress, workVars, ndeletes,
                    shutVars, npassfaults,
                    msgVars, wsVars, fileVars >>

\* ------------------------------------------------------------ cancel_job
\* cpc = "returned": the call has returned cret to its caller.
Returned(ret, changed) ==
    /\ cret' = ret
    /\ cchanged' = changed
    /\ trueCancels' = [trueCancels EXCEPT ![cjob] = IF ret THEN Min(@ + 1, 2) ELSE @]
    /\ ncancels' = IF ret THEN ncancels + 1 ELSE ncancels
    /\ cpc' = "returned"

\* with self.lock: future = self.active_jobs.get(job_id)
cancel_job(j) ==
    /\ cpc = "idle"
    /\ ncancels < MaxCancels
    /\ status[j] # "none"
    /\ cjob' = j
    /\ centry' = status[j]
    /\ cvia' = IF j \in active_jobs THEN "future" ELSE "store"
    /\ cpc' = IF j \in active_jobs THEN "future" ELSE "query"
    /\ UNCHANGED << videoVars, storage_used, progress, workVars, deleteVars, shutVars, npassfaults,
                    msgVars, wsVars, fileVars >>
    /\ UNCHANGED << storeVars, active_jobs, wake, exec, pollVars, nfaults,
                    submits, wasRunning, notFound, ncancels, cret, cchanged, trueCancels >>

\* future.cancel(): True for a Future still PENDING (it becomes CANCELLED and
\* its done callback runs on this thread) or already CANCELLED; False for a
\* RUNNING or FINISHED one, and cancel_job returns False.
cancel_future ==
    /\ cpc = "future"
    /\ IF exec[cjob] = "queued"
          THEN /\ exec' = [exec EXCEPT ![cjob] = "cancelled"]
               /\ cleanup_job(cjob)
               /\ cpc' = "write"
               /\ UNCHANGED << ncancels, cret, cchanged, trueCancels >>
          ELSE IF exec[cjob] = "cancelled"
          THEN /\ cpc' = "write"
               /\ UNCHANGED << exec, active_jobs, wake, ncancels, cret, cchanged, trueCancels >>
          ELSE /\ Returned(FALSE, FALSE)
               /\ UNCHANGED << exec, active_jobs, wake >>
    /\ UNCHANGED << videoVars, storage_used, progress, workVars, deleteVars, shutVars, npassfaults,
                    msgVars, wsVars, fileVars >>
    /\ UNCHANGED << storeVars, pollVars, cjob, centry, cvia, nfaults,
                    submits, wasRunning, notFound >>

\* job.status = 'cancelled'; session.commit()
WriteCancelled(j) ==
    status' = [status EXCEPT ![j] = "cancelled"]

\* in-flight path: the job is re-read and set cancelled; return True.
cancel_write ==
    /\ cpc = "write"
    /\ WriteCancelled(cjob)
    /\ Returned(TRUE, status[cjob] # "cancelled")
    /\ UNCHANGED << videoVars, storage_used, progress, workVars, deleteVars, shutVars, npassfaults,
                    msgVars, wsVars, fileVars >>
    /\ UNCHANGED << priority, created_at, videoRow, active_jobs, wake, exec,
                    pollVars, cjob, centry, cvia, nfaults, submits,
                    wasRunning, notFound >>

\* pending path: the query filter(id == job_id, status == 'pending').
cancel_query ==
    /\ cpc = "query"
    /\ IF status[cjob] = "pending"
          THEN /\ cpc' = "pwrite"
               /\ UNCHANGED << ncancels, cret, cchanged, trueCancels >>
          ELSE Returned(FALSE, FALSE)
    /\ UNCHANGED << videoVars, storage_used, progress, workVars, deleteVars, shutVars, npassfaults,
                    msgVars, wsVars, fileVars >>
    /\ UNCHANGED << storeVars, active_jobs, wake, exec, pollVars, cjob, centry,
                    cvia, nfaults, submits, wasRunning, notFound >>

\* The pending path that marks the video of the job as well.
cancel_pending_write_marks_video ==
    /\ cpc = "pwrite"
    /\ WriteCancelled(cjob)
    /\ vstatus' = [vstatus EXCEPT ![cjob] = "error"]
    /\ Returned(TRUE, status[cjob] # "cancelled")
    /\ UNCHANGED << file_size, checksum, file_path, sizeWrites, storage_used,
                    progress, workVars, deleteVars, shutVars, npassfaults,
                    msgVars, wsVars, fileVars >>
    /\ UNCHANGED << priority, created_at, videoRow, active_jobs, wake, exec,
                    pollVars, cjob, centry, cvia, nfaults, submits,
                    wasRunning, notFound >>

\* pending path: job.status = 'cancelled'; session.commit(); return True.
cancel_pending_write ==
    /\ cpc = "pwrite"
    /\ WriteCancelled(cjob)
    /\ Returned(TRUE, status[cjob] # "cancelled")
    /\ UNCHANGED << videoVars, storage_used, progress, workVars, deleteVars, shutVars, npassfaults,
                    msgVars, wsVars, fileVars >>
    /\ UNCHANGED << priority, created_at, videoRow, active_jobs, wake, exec,
                    pollVars, cjob, centry, cvia, nfaults, submits,
                    wasRunning, notFound >>

\* The caller has the result; the next call may begin.
cancel_return ==
    /\ cpc = "returned"
    /\ cpc' = "idle"
    /\ cjob' = 0
    /\ centry' = "none"
    /\ cvia' = "none"
    /\ cret' = FALSE
    /\ cchanged' = FALSE
    /\ UNCHANGED << videoVars, storage_used, progress, workVars, deleteVars, shutVars, npassfaults,
                    msgVars, wsVars, fileVars >>
    /\ UNCHANGED << storeVars, active_jobs, wake, exec, pollVars, ncancels,
                    nfaults, submits, wasRunning, notFound, trueCancels >>

\* ------------------------------------------------------ WebSocketManager
\* Everything but the state of the WebSocketManager.
coreVars == << storeVars, active_jobs, wake, exec, pollVars, cancelVars, nfaults,
               submits, wasRunning, notFound, videoVars, storage_used, progress,
               workVars, deleteVars, shutVars, npassfaults, msgVars, fileVars >>

\* State of connection c: "new" until connect has registered it, then
\* "registered", "pruned" once a broadcast has removed it, "closed" after
\* disconnect.
wstate(c) == IF c \in DOMAIN sockets THEN sockets[c].state ELSE "new"

\* user_id connection c was opened for (0: none, or closed).
wuser(c) == IF c \in DOMAIN sockets THEN sockets[c].user ELSE 0

\* Position of the coroutine of event e: "none" before the call, "dropped"
\* if no coroutine was scheduled, then "scheduled", "sending", "awaiting",
\* "cleanup", "done".
bpc(e) == IF e \in DOMAIN broadcasts THEN broadcasts[e].pc ELSE "none"

\* user_id of event e (0: not published, or the coroutine has returned).
buser(e) == IF e \in DOMAIN broadcasts THEN broadcasts[e].user ELSE 0

\* Outcome of the broadcast_to_user_sync call of event e for its caller.
pubcall(e) == IF e \in DOMAIN broadcasts THEN broadcasts[e].call ELSE "none"

\* Of the copy made by the broadcast of e, the connections not yet sent to.
connections(e) == IF e \in DOMAIN broadcasts THEN broadcasts[e].connections ELSE {}

\* The list `disconnected` of the broadcast of e.
disconnected(e) == IF e \in DOMAIN broadcasts THEN broadcasts[e].disconnected ELSE {}

\* History: the connections registered for the user when the fan-out of e
\* began.
atFanout(e) == IF e \in DOMAIN broadcasts THEN broadcasts[e].atFanout ELSE {}

\* History: the number of send_json calls of the broadcast of e on c.
nsent(e, c) ==
    IF e \in DOMAIN broadcasts /\ c \in DOMAIN broadcasts[e].nsent
       THEN broadcasts[e].nsent[c] ELSE 0

\* WebSocketManager.__init__: self._loop = asyncio.get_event_loop(), or None
\* when that raises RuntimeError; no connection yet. The loop it got is the
\* one the server runs ("running"), or one that is closed when the calls
\* come ("closed").
websocket_manager_init(l) ==
    /\ loop = "unset"
    /\ loop' = l
    /\ UNCHANGED << coreVars, active_connections, sockets, broadcasts >>

\* The user ids that connections or broadcasts under way refer to.
UsersInUse ==
    {wuser(c) : c \in DOMAIN sockets} \cup {buser(e) : e \in DOMAIN broadcasts}

\* User ids are interchangeable: the ids in use, and of those not in use
\* the smallest.
NextUsers ==
    {u \in Users : u \in UsersInUse \/ \A v \in Users \ UsersInUse : u <= v}

\* The dict d without the key u.
Without(d, u) == [v \in DOMAIN d \ {u} |-> d[v]]

\* The dict d with d[u] = set.
With(d, u, set) == [v \in DOMAIN d \cup {u} |-> IF v = u THEN set ELSE d[v]]

\* The removal that leaves the key of an emptied set in the dict.
DiscardKeepKey(d, u, gone) ==
    IF u \in DOMAIN d THEN With(d, u, d[u] \ gone) ELSE d

\* if user_id in self.active_connections: discard the connections; if the
\* set is empty now, del self.active_connections[user_id]
Discard(d, u, gone) ==
    IF u \in DOMAIN d
       THEN IF d[u] \ gone = {} THEN Without(d, u) ELSE With(d, u, d[u] \ gone)
       ELSE d

\* connect: once await websocket.accept() has returned, under the lock, the
\* set of the user is created if it is not there and the connection added.
\* Connections are numbered in the order they are opened.
connect(c, u) ==
    /\ loop = "running"
    /\ c = Len(sockets) + 1
    /\ u \in NextUsers
    /\ active_connections' =
          With(active_connections, u,
               (IF u \in DOMAIN active_connections
                   THEN active_connections[u] ELSE {}) \cup {c})
    /\ sockets' = Append(sockets, [state |-> "registered", user |-> u])
    /\ UNCHANGED << coreVars, loop, broadcasts >>

\* disconnect (the finally of the endpoint, once per connection), under the
\* lock.
disconnect(c) ==
    /\ loop = "running"
    /\ wstate(c) \in {"registered", "pruned"}
    /\ active_connections' = Discard(active_connections, wuser(c), {c})
    /\ sockets' = [sockets EXCEPT ![c] = [state |-> "closed", user |-> 0]]
    /\ UNCHANGED << coreVars, loop, broadcasts >>

\* The call made without the check of self._loop and without the try: no
\* loop, or a closed one, raises into the worker.
sync_outcome_unguarded(l) == IF l = "running" THEN "returned" ELSE "raised"

\* How broadcast_to_user_sync ends for its caller: without a loop it
\* returns at once; run_coroutine_threadsafe returns a Future that nobody
\* waits for; what it raises (a closed loop) is caught and logged.
sync_outcome(l) == "returned"

\* What becomes of the coroutine: scheduled on a running loop, else none.
handed_off(l) == IF l = "running" THEN "scheduled" ELSE "dropped"

\* broadcast_to_user_sync(user_id, message), from any thread. Events are
\* numbered in the order of the calls.
broadcast_to_user_sync(u, e) ==
    /\ loop # "unset"
    /\ e = Len(broadcasts) + 1
    /\ u \in NextUsers
    /\ broadcasts' = Append(broadcasts,
          [user |-> IF handed_off(loop) = "scheduled" THEN u ELSE 0,
           pc |-> handed_off(loop),
           call |-> sync_outcome(loop),
           connections |-> {}, cur |-> 0, disconnected |-> {},
           nsent |-> << >>, atFanout |-> {}])
    /\ UNCHANGED << coreVars, loop, active_connections, sockets >>

\* The copy of the set of the user that exists at any time, whoever it is
\* registered for now.
all_connections(u) == {c \in Sinks : wuser(c) = u}

\* The copy taken from the sets of all the users.
copy_connections_of_all(u) ==
    UNION {active_connections[v] : v \in DOMAIN active_connections}

\* self.active_connections.get(user_id, set()).copy()
copy_connections(u) ==
    IF u \in DOMAIN active_connections THEN active_connections[u] ELSE {}

\* The connections registered for u: connect has added them and neither
\* disconnect nor a broadcast has removed them.
Registered(u) == {c \in Sinks : wstate(c) = "registered" /\ wuser(c) = u}

\* After a send_json, or at the start: the for loop goes on, or ends with
\* or without connections to clean up.
after_send(left, failed) ==
    IF left # {} THEN "sending"
    ELSE IF failed # {} THEN "cleanup" ELSE "done"

\* The coroutine has returned: its arguments and locals, and what was
\* recorded about its sends, are gone.
returned ==
    [user |-> 0, pc |-> "done", call |-> "returned",
     connections |-> {}, cur |-> 0, disconnected |-> {},
     nsent |-> << >>, atFanout |-> {}]

\* broadcast_to_user starts on the loop, the coroutines in the order they
\* were scheduled: returns if the user has no key, else copies the user's
\* set under the lock.
broadcast_to_user(e) ==
    /\ loop = "running"
    /\ bpc(e) = "scheduled"
    /\ \A f \in Events : f < e => bpc(f) # "scheduled"
    /\ broadcasts' = [broadcasts EXCEPT ![e] =
          IF buser(e) \notin DOMAIN active_connections
             THEN returned
             ELSE [@ EXCEPT !.connections = copy_connections(buser(e)),
                            !.atFanout = Registered(buser(e)),
                            !.pc = after_send(copy_connections(buser(e)), {})]]
    /\ UNCHANGED << coreVars, loop, active_connections, sockets >>

\* for connection in connections: await connection.send_json(message) is
\* called; the coroutine is suspended until the send ends. The loop visits
\* the copy in the order of the connection numbers.
send_json(e, c) ==
    /\ loop = "running"
    /\ bpc(e) = "sending"
    /\ c \in connections(e)
    /\ \A b \in connections(e) : c <= b
    /\ broadcasts' = [broadcasts EXCEPT ![e] =
          [@ EXCEPT !.connections = @ \ {c},
                    !.cur = c,
                    !.nsent = [d \in DOMAIN @ \cup {c} |->
                                  IF d = c THEN Min(nsent(e, c) + 1, 2) ELSE @[d]],
                    !.pc = "awaiting"]]
    /\ UNCHANGED << coreVars, loop, active_connections, sockets >>

\* send_json returns, or raises WebSocketDisconnect or another Exception:
\* the connection is appended to `disconnected` and the loop goes on.
send_ends(e, ok) ==
    /\ loop = "running"
    /\ bpc(e) = "awaiting"
    /\ LET failed == IF ok THEN disconnected(e)
                     ELSE disconnected(e) \cup {broadcasts[e].cur}
           next == after_send(connections(e), failed)
       IN  broadcasts' = [broadcasts EXCEPT ![e] =
              IF next = "done" THEN returned
              ELSE [@ EXCEPT !.disconnected = failed, !.cur = 0, !.pc = next]]
    /\ UNCHANGED << coreVars, loop, active_connections, sockets >>

\* The broadcast that ends without cleaning up after failed sends.
broadcast_cleanup_skipped(e) ==
    /\ loop = "running"
    /\ bpc(e) = "cleanup"
    /\ broadcasts' = [broadcasts EXCEPT ![e] = returned]
    /\ UNCHANGED << coreVars, loop, active_connections, sockets >>

\* if disconnected: under the lock, discard them from the set of the user
\* and delete the set if it is empty.
broadcast_cleanup(e) ==
    /\ loop = "running"
    /\ bpc(e) = "cleanup"
    /\ active_connections' = Discard(active_connections, buser(e), disconnected(e))
    /\ sockets' = [c \in DOMAIN sockets |->
                     IF c \in disconnected(e) /\ wstate(c) = "registered"
                        THEN [sockets[c] EXCEPT !.state = "pruned"]
                        ELSE sockets[c]]
    /\ broadcasts' = [broadcasts EXCEPT ![e] = returned]
    /\ UNCHANGED << coreVars, loop >>

\* ---------------------------------------------------------- queue status
\* get_queue_status(): the registry is counted once, under the lock; the
\* pending rows are counted by a query.
get_queue_status ==
    [active_jobs     |-> Active,
     pending_jobs    |-> Cardinality(PendingJobs),
     max_workers     |-> max_workers,
     available_slots |-> max_workers - Active]

\* -------------------------------------------------------------- shutdown
Live == {j \in Jobs : exec[j] \in {"queued", "picked", "loaded"}}

\* shutdown(wait, timeout): self.shutdown_requested = True;
\* self.shutdown_flag.set()
shutdown(w) ==
    /\ spc = "idle"
    /\ shutdown_requested' = TRUE
    /\ wake' = TRUE
    /\ swait' = w
    /\ spc' = "join"
    /\ UNCHANGED << storeVars, active_jobs, exec, pollVars, cancelVars, nfaults,
                    submits, wasRunning, notFound, videoVars, storage_used,
                    progress, workVars, deleteVars, pool_down, stimeout,
                    npassfaults,
                    msgVars, wsVars, fileVars >>

\* self.poller_thread.join(timeout=5.0): returns when the poller has stopped
\* or when the 5 seconds are over, the poller still in its pass.
shutdown_join ==
    /\ spc = "join"
    /\ spc' = "executor"
    /\ UNCHANGED << storeVars, active_jobs, wake, exec, pollVars, cancelVars,
                    nfaults, submits, wasRunning, notFound, videoVars,
                    storage_used, progress, workVars, deleteVars,
                    shutdown_requested, pool_down, swait, stimeout, npassfaults,
                    msgVars, wsVars, fileVars >>

\* self.executor.shutdown(wait=wait, cancel_futures=not wait): no new work
\* is accepted; without wait the queued Futures are cancelled (their done
\* callbacks run here) and the call returns; with wait it joins the pool
\* threads. The timeout argument of shutdown is not passed on.
shutdown_executor ==
    /\ spc = "executor"
    /\ pool_down' = TRUE
    /\ IF swait
          THEN /\ spc' = "pool_wait"
               /\ UNCHANGED << exec, active_jobs, wake >>
          ELSE /\ spc' = "done"
               /\ exec' = [j \in Jobs |-> IF exec[j] = "queued" THEN "cancelled"
                                          ELSE exec[j]]
               /\ active_jobs' = active_jobs \ {j \in Jobs : exec[j] = "queued"}
               /\ wake' = (wake \/ \E j \in Jobs : exec[j] = "queued")
    /\ UNCHANGED << storeVars, pollVars, cancelVars, nfaults, submits,
                    wasRunning, notFound, videoVars, storage_used, progress,
                    workVars, deleteVars, shutdown_requested, swait, stimeout,
                    npassfaults,
                    msgVars, wsVars, fileVars >>

\* executor.shutdown(wait=True) returns: every pool thread has ended, no
\* Future is queued or running.
shutdown_joined ==
    /\ spc = "pool_wait"
    /\ Live = {}
    /\ spc' = "done"
    /\ UNCHANGED << storeVars, active_jobs, wake, exec, pollVars, cancelVars,
                    nfaults, submits, wasRunning, notFound, videoVars,
                    storage_used, progress, workVars, deleteVars,
                    shutdown_requested, pool_down, swait, stimeout, npassfaults,
                    msgVars, wsVars, fileVars >>

\* The timeout given to shutdown passes while executor.shutdown(wait=True)
\* is joining the pool threads; nothing in shutdown looks at it.
shutdown_timeout_passes ==
    /\ spc = "pool_wait"
    /\ ~stimeout
    /\ stimeout' = TRUE
    /\ UNCHANGED << storeVars, active_jobs, wake, exec, pollVars, cancelVars,
                    nfaults, submits, wasRunning, notFound, videoVars,
                    storage_used, progress, workVars, deleteVars,
                    shutdown_requested, pool_down, spc, swait, npassfaults,
                    msgVars, wsVars, fileVars >>

\* ------------------------------------------ exceptions inside a pass
\* The poll loop with its except clauses removed: an exception ends it.
LoopDies(next) == "stopped"

\* except Exception of _poll_pending_jobs and of _schedule_pending_jobs: the
\* exception is logged and the loop goes on at `next`.
LoopCatches(next) == next

\* The query for the pending jobs raises: the outer except of
\* _schedule_pending_jobs returns to the loop.
schedule_fetch_fails ==
    /\ ppc = "fetch"
    /\ npassfaults < MaxPassFaults
    /\ npassfaults' = npassfaults + 1
    /\ ppc' = LoopCatches("wait")
    /\ avail' = 0
    /\ UNCHANGED << storeVars, active_jobs, wake, exec, fetched, idx,
                    passPending, cancelVars, nfaults, submits, wasRunning,
                    notFound, videoVars, storage_used, progress, workVars,
                    deleteVars, shutVars, msgVars, wsVars, fileVars >>

\* executor.submit raises: the inner except goes on with the next job.
schedule_submit_fails ==
    /\ ppc = "submit"
    /\ npassfaults < MaxPassFaults
    /\ npassfaults' = npassfaults + 1
    /\ IF LoopCatches("on") = "stopped"
          THEN ppc' = "stopped" /\ UNCHANGED << idx, avail, fetched, passPending >>
          ELSE skip_job
    /\ UNCHANGED << storeVars, active_jobs, wake, exec,
                    cancelVars, nfaults, submits, wasRunning,
                    notFound, videoVars, storage_used, progress, workVars,
                    deleteVars, shutVars, msgVars, wsVars, fileVars >>

\* session.commit() of the status flip raises: the row stays pending, the
\* Future is submitted and registered; the inner except goes on.
schedule_commit_fails ==
    /\ ppc = "commit"
    /\ npassfaults < MaxPassFaults
    /\ npassfaults' = npassfaults + 1
    /\ IF LoopCatches("on") = "stopped"
          THEN ppc' = "stopped" /\ UNCHANGED << idx, avail, fetched, passPending >>
          ELSE skip_job
    /\ UNCHANGED << storeVars, active_jobs, wake, exec,
                    cancelVars, nfaults, submits, wasRunning,
                    notFound, videoVars, storage_used, progress, workVars,
                    deleteVars, shutVars, msgVars, wsVars, fileVars >>

\* ------------------------------------------------------------------ spec
\* submit_download creates every job with priority 0; the jobs here share one
\* created_at, so the query may return them in any order.
Next ==
    \/ submit_download(0, 1)
    \/ poll_wait
    \/ poll_clear
    \/ poll_slots
    \/ schedule_fetch
    \/ schedule_submit
    \/ schedule_register
    \/ schedule_commit
    \/ \E j \in Jobs : worker_pick(j)
    \/ \E j \in Jobs : execute_load(j)
    \/ \E j \in Jobs, o \in Outcomes : execute_finish(j, o)
    \/ \E j \in Jobs : cancel_job(j)
    \/ cancel_future
    \/ cancel_write
    \/ cancel_query
    \/ cancel_pending_write
    \/ cancel_return

Spec == Init /\ [][Next]_vars

\* The program with integrity faults of the store.
NextFault ==
    \/ Next
    \/ \E j \in Jobs : LoseVideoRow(j)

SpecFault == Init /\ [][NextFault]_vars

\* The scheduler and the workers over a job table of any priorities and
\* creation times (submit_download itself always sets priority 0).
NextOrder ==
    \/ \E p \in Priorities, t \in Times : submit_download(p, t)
    \/ poll_wait
    \/ poll_clear
    \/ poll_slots
    \/ schedule_fetch
    \/ schedule_submit
    \/ schedule_register
    \/ schedule_commit
    \/ \E j \in Jobs : worker_pick(j)
    \/ \E j \in Jobs : execute_load(j)
    \/ \E j \in Jobs, o \in Outcomes : execute_finish(j, o)

SpecOrder == Init /\ [][NextOrder]_vars

\* The scheduler and the workers step by step through execute_download.
NextProcess ==
    \/ submit_download(0, 1)
    \/ poll_wait
    \/ poll_clear
    \/ poll_slots
    \/ schedule_fetch
    \/ schedule_submit
    \/ schedule_register
    \/ schedule_commit
    \/ \E j \in Jobs : worker_pick(j)
    \/ \E j \in Jobs : execute_load(j)
    \/ \E j \in Jobs : progress_start(j)
    \/ \E j \in Jobs : launch_process(j)
    \/ \E j \in Jobs, pc \in Percents, due \in BOOLEAN : read_line(j, pc, due)
    \/ \E j \in Jobs : close_output(j)
    \/ \E j \in Jobs : timeout_elapses(j)
    \/ \E j \in Jobs, r \in {"file", "nofile", "max_filesize", "other"},
          hp \in BOOLEAN : wait_returns(j, r, hp)
    \/ \E j \in Jobs : wait_timeout(j)
    \/ \E j \in Jobs : progress_checksum(j)
    \/ \E j \in Jobs, sz \in Sizes, ok \in BOOLEAN : checksum_file(j, sz, ok)
    \/ \E j \in Jobs, ok \in BOOLEAN : move_file(j, ok)
    \/ \E j \in Jobs : final_read(j)
    \/ \E j \in Jobs : final_commit(j)
    \/ \E j \in Jobs, sz \in Sizes : handle_failure(j, sz)

SpecProcess == Init /\ [][NextProcess]_vars

\* The scheduler and the workers transaction by transaction, with every
\* class of failure of the download (the progress lines of the process are
\* followed in SpecProcess).
NextFailure ==
    \/ submit_download(0, 1)
    \/ poll_wait
    \/ poll_clear
    \/ poll_slots
    \/ schedule_fetch
    \/ schedule_submit
    \/ schedule_register
    \/ schedule_commit
    \/ \E j \in Jobs : worker_pick(j)
    \/ \E j \in Jobs : execute_load(j)
    \/ \E j \in Jobs, r \in DownloadResults, sz \in Sizes, hp \in BOOLEAN :
          download(j, 0, r, sz, hp)
    \/ \E j \in Jobs : final_read(j)
    \/ \E j \in Jobs : final_commit(j)
    \/ \E j \in Jobs, sz \in Sizes : handle_failure(j, sz)

SpecFailure == Init /\ [][NextFailure]_vars

\* The scheduler, the workers transaction by transaction and delete_video
\* calls of the owner; downloads succeed with a file of size 1 or fail.
NextStorage ==
    \/ submit_download(0, 1)
    \/ poll_wait
    \/ poll_clear
    \/ poll_slots
    \/ schedule_fetch
    \/ schedule_submit
    \/ schedule_register
    \/ schedule_commit
    \/ \E j \in Jobs : worker_pick(j)
    \/ \E j \in Jobs : execute_load(j)
    \/ \E j \in Jobs, r \in {"file", "other"} : download(j, 0, r, 1, FALSE)
    \/ \E j \in Jobs : final_read(j)
    \/ \E j \in Jobs : final_commit(j)
    \/ \E j \in Jobs : handle_failure(j, 1)
    \/ \E v \in Jobs : delete_load(v)
    \/ delete_commit

SpecStorage == Init /\ [][NextStorage]_vars

\* The scheduler and the workers with a shutdown call and with exceptions
\* raised inside the scheduling passes.
NextShutdown ==
    \/ submit_download(0, 1)
    \/ poll_wait
    \/ poll_clear
    \/ poll_slots
    \/ schedule_fetch
    \/ schedule_submit
    \/ schedule_register
    \/ schedule_commit
    \/ \E j \in Jobs : worker_pick(j)
    \/ \E j \in Jobs : execute_load(j)
    \/ \E j \in Jobs, o \in Outcomes : execute_finish(j, o)
    \/ \E w \in BOOLEAN : shutdown(w)
    \/ shutdown_join
    \/ shutdown_executor
    \/ shutdown_joined
    \/ shutdown_timeout_passes
    \/ schedule_fetch_fails
    \/ schedule_submit_fails
    \/ schedule_commit_fails

SpecShutdown == Init /\ [][NextShutdown]_vars

\* One step of the poller thread.
PollerStep ==
    \/ poll_wait
    \/ poll_clear
    \/ poll_slots
    \/ schedule_fetch
    \/ schedule_submit
    \/ schedule_register
    \/ schedule_commit

\* The scheduler, the workers and a shutdown call; the poller thread is a
\* running thread whose waits time out and whose queries return, so it
\* always takes its next step.
NextWake ==
    \/ submit_download(0, 1)
    \/ PollerStep
    \/ \E j \in Jobs : worker_pick(j)
    \/ \E j \in Jobs : execute_load(j)
    \/ \E j \in Jobs, o \in Outcomes : execute_finish(j, o)
    \/ \E w \in BOOLEAN : shutdown(w)
    \/ shutdown_join
    \/ shutdown_executor
    \/ shutdown_joined

SpecWake == Init /\ [][NextWake]_vars /\ WF_vars(PollerStep)

\* The WebSocketManager under connects, disconnects and broadcasts from
\* any thread.
NextBroadcast ==
    \/ \E l \in {"none", "running", "closed"} : websocket_manager_init(l)
    \/ \E c \in Sinks, u \in Users : connect(c, u)
    \/ \E c \in Sinks : disconnect(c)
    \/ \E u \in Users, e \in Events : broadcast_to_user_sync(u, e)
    \/ \E e \in Events : broadcast_to_user(e)
    \/ \E e \in Events, c \in Sinks : send_json(e, c)
    \/ \E e \in Events, ok \in BOOLEAN : send_ends(e, ok)
    \/ \E e \in Events : broadcast_cleanup(e)

SpecBroadcast == Init /\ [][NextBroadcast]_vars

\* The job rows created so far.
Created == {j \in Jobs : status[j] # "none"}

\* Every operation of the scheduler (passes, completion callbacks,
\* cancel_job, shutdown) with the workers transaction by transaction, over
\* at most MaxFrameJobs jobs.
NextFrame ==
    \/ Cardinality(Created) < MaxFrameJobs /\ submit_download(0, 1)
    \/ PollerStep
    \/ \E j \in Jobs : worker_pick(j)
    \/ \E j \in Jobs : execute_load(j)
    \/ \E j \in Jobs, r \in {"file", "other"} : download(j, 0, r, 1, FALSE)
    \/ \E j \in Jobs : final_read(j)
    \/ \E j \in Jobs : final_commit(j)
    \/ \E j \in Jobs : handle_failure(j, 1)
    \/ \E j \in Jobs : cancel_job(j)
    \/ cancel_future
    \/ cancel_write
    \/ cancel_query
    \/ cancel_pending_write
    \/ cancel_return
    \/ \E w \in BOOLEAN : shutdown(w)
    \/ shutdown_join
    \/ shutdown_executor
    \/ shutdown_joined

SpecFrame == Init /\ [][NextFrame]_vars

\* Lines 113-122 of submit_download: with a size estimate (0: the extractor
\* gave none) the download is refused if the estimate is larger than
\* storage_quota - storage_used, read now; nothing is reserved.
QuotaAdmits(estimated_size) ==
    estimated_size # 0 => estimated_size <= storage_quota - storage_used

submit_within_quota(estimated_size) ==
    /\ QuotaAdmits(estimated_size)
    /\ submit_download(0, 1)

\* Submissions under the quota check, every download with an estimate of 1
\* and a file of size 1, and the scheduler and the workers transaction by
\* transaction.
NextQuota ==
    \/ submit_within_quota(1)
    \/ PollerStep
    \/ \E j \in Jobs : worker_pick(j)
    \/ \E j \in Jobs : execute_load(j)
    \/ \E j \in Jobs, r \in {"file", "other"} : download(j, 0, r, 1, FALSE)
    \/ \E j \in Jobs : final_read(j)
    \/ \E j \in Jobs : final_commit(j)
    \/ \E j \in Jobs : handle_failure(j, 1)

SpecQuota == Init /\ [][NextQuota]_vars

\* One job at a time through execute_download, its file moved by
\* safe_move_file from and to whatever the call may find.
NextMove ==
    \/ Cardinality(Created) < MaxFrameJobs /\ submit_download(0, 1)
    \/ PollerStep
    \/ \E j \in Jobs : worker_pick(j)
    \/ \E j \in Jobs : execute_load(j)
    \/ \E j \in Jobs : progress_start(j)
    \/ \E j \in Jobs : launch_process(j)
    \/ \E j \in Jobs : close_output(j)
    \/ \E j \in Jobs : wait_returns(j, "file", FALSE)
    \/ \E j \in Jobs : progress_checksum(j)
    \/ \E j \in Jobs : checksum_file(j, 1, TRUE)
    \/ \E j \in Jobs, src \in Sources, dir \in Places, name \in Filenames,
          dest \in Entries : safe_move(j, src, dir, name, dest)
    \/ \E j \in Jobs : final_read(j)
    \/ \E j \in Jobs : final_commit(j)
    \/ \E j \in Jobs : handle_failure(j, 1)

SpecMove == Init /\ [][NextMove]_vars

\* One job at a time through execute_download, its process ending with a
\* code that is not 0 and any output.
NextClassify ==
    \/ Cardinality(Created) < MaxFrameJobs /\ submit_download(0, 1)
    \/ PollerStep
    \/ \E j \in Jobs : worker_pick(j)
    \/ \E j \in Jobs : execute_load(j)
    \/ \E j \in Jobs : progress_start(j)
    \/ \E j \in Jobs : launch_process(j)
    \/ \E j \in Jobs : close_output(j)
    \/ \E j \in Jobs, out \in Outputs : wait_fails(j, out, FALSE)
    \/ \E j \in Jobs : handle_failure(j, 1)

SpecClassify == Init /\ [][NextClassify]_vars

TypeOK ==
    /\ status \in [Jobs -> {"none", "pending", "running"} \cup Terminal]
    /\ exec \in [Jobs -> {"none", "queued", "picked", "loaded", "done", "cancelled"}]
    /\ active_jobs \subseteq Jobs
    /\ ppc \in {"wait", "clear", "slots", "fetch", "submit", "register", "commit",
               "stopped"}
    /\ spc \in {"idle", "join", "executor", "pool_wait", "done"}
    /\ loop \in {"unset", "none", "running", "closed"}
    /\ DOMAIN active_connections \subseteq Users
    /\ \A u \in DOMAIN active_connections : active_connections[u] \subseteq Sinks
    /\ DOMAIN sockets \subseteq Sinks
    /\ DOMAIN broadcasts \subseteq Events
    /\ \A c \in Sinks : wstate(c) \in {"new", "registered", "pruned", "closed"}
    /\ \A e \in Events : bpc(e) \in {"none", "dropped", "scheduled", "sending",
                                     "awaiting", "cleanup", "done"}
    /\ \A e \in Events : pubcall(e) \in {"none", "returned", "raised"}
    /\ vstatus \in [Jobs -> {"none", "processing", "ready", "error", "deleted"}]
    /\ progress \in [Jobs -> 0..100]
    /\ cpc \in {"idle", "future", "write", "query", "pwrite", "returned"}

\* ------------------------------------------------------------ properties
RunningJobs == {j \in Jobs : status[j] = "running"}

\* The poller is between executor.submit and the commit of `running` for j.
Scheduling(j) == ppc \in {"register", "commit"} /\ fetched[idx] = j

\* C1: in every state at most max_workers jobs have the persisted status
\* `running`.
C1_RunningWithinPool == Cardinality(RunningJobs) <= max_workers

\* C2: the only status changes are pending->running, pending->cancelled and
\* running->{completed, failed, cancelled} (and the creation of the row); in
\* particular a terminal status never changes.
LegalChange(a, b) ==
    \/ a = "none" /\ b = "pending"
    \/ a = "pending" /\ b \in {"running", "cancelled"}
    \/ a = "running" /\ b \in Terminal

C2_OnlyLegalChanges ==
    [][\A j \in Jobs : status'[j] # status[j] => LegalChange(status[j], status'[j])]_vars

\* C3: every job is handed to the pool at most once.
C3_SubmittedOnce == \A j \in Jobs : submits[j] <= 1

\* A later pass runs after a job has been submitted, executed and finalized.
C3_Witness ==
    \E j \in Jobs : /\ submits[j] = 1
                    /\ exec[j] = "done"
                    /\ status[j] \in Terminal
                    /\ ppc = "submit"

\* C4: a pass never starts a job while a job that was pending at its fetch
\* and has higher priority, or equal priority and earlier creation, is left
\* unstarted.
RanksAbove(b, a) ==
    \/ priority[b] > priority[a]
    \/ priority[b] = priority[a] /\ created_at[b] < created_at[a]

StartedInPass ==
    IF ppc = "submit" THEN idx - 1
    ELSE IF ppc \in {"register", "commit"} THEN idx
    ELSE 0

C5_CancelPendingSucceeds ==
    (cpc = "returned" /\ centry = "pending") => (cret /\ status[cjob] = "cancelled")

\* C6: cancel_job returns True exactly when the call changed the status to
\* cancelled; a call on a terminal job returns False; at most one call per
\* job returns True.
C6_TrueIffChanged ==
    /\ cpc = "returned" => (cret <=> cchanged)
    /\ (cpc = "returned" /\ centry \in Terminal) => ~cret
    /\ \A j \in Jobs : trueCancels[j] <= 1

\* C7: a cancel_job call on an in-flight job that returned True leaves the
\* job unexecuted and recorded cancelled; one that returned False found the
\* execution begun and wrote nothing.
C7_InFlightCancel ==
    (cpc = "returned" /\ cvia = "future") =>
        IF cret THEN exec[cjob] = "cancelled" /\ status[cjob] = "cancelled"
        ELSE exec[cjob] \in {"picked", "loaded", "done"} /\ ~cchanged

\* C8: a job recorded completed or failed was recorded running before.
C8_RunningBeforeOutcome ==
    \A j \in Jobs : status[j] \in {"completed", "failed"} => j \in wasRunning

\* The worker finished a job before the scheduler committed its `running`.
C8_Witness ==
    \E j \in Jobs : /\ status[j] \in {"completed", "failed"}
                    /\ ppc = "commit"
                    /\ fetched[idx] = j

\* C9: a job is recorded running only while an execution unit holds it or an
\* operation on it is still under way; otherwise it would stay running for
\* ever.
C9_NoOrphanRunning ==
    \A j \in RunningJobs :
        \/ exec[j] \in {"queued", "picked", "loaded"}
        \/ Scheduling(j)
        \/ cpc \in {"write", "pwrite"} /\ cjob = j

\* C10: an execution that found the job or video row missing leaves a job
\* row that exists recorded failed.
C10_NotFoundFails ==
    \A j \in notFound : status[j] # "none" => status[j] = "failed"

\* C11: a download that failed on the size limit and left a partial file
\* ends with the job failed and the video in error with a size that is not
\* zero, a checksum and the file in the storage.
C11_PartialKept ==
    [][\A j \in Jobs :
          (step[j] = "size_error" /\ partial[j] /\ step'[j] = "idle") =>
              /\ status'[j] = "failed"
              /\ vstatus'[j] = "error"
              /\ file_size'[j] > 0
              /\ checksum'[j]
              /\ file_path'[j] = "final"]_vars

\* C12: the handling of a failure that is not the size limit leaves the
\* video's size 0 and its checksum and path as they were.
C12_OtherFailuresKeepSize ==
    [][\A j \in Jobs :
          (step[j] \in {"proc_error", "timeout", "exception"} /\ step'[j] = "idle") =>
              /\ file_size'[j] = 0
              /\ checksum'[j] = checksum[j]
              /\ file_path'[j] = file_path[j]]_vars

\* A job has failed on the move into storage, after its file was measured.
C12_Witness ==
    \E j \in Jobs : /\ status[j] = "failed"
                    /\ vstatus[j] = "error"
                    /\ progress[j] = 80
                    /\ exec[j] = "done"

\* C13: once the timeout has passed since the launch, the worker is not
\* left reading the output of the process.
C13_TimeoutEnforced ==
    \A j \in Jobs : elapsed[j] => step[j] # "reading"

\* C14: while a job is running its persisted progress never decreases and
\* stays within 0..100.
C14_ProgressMonotone ==
    [][\A j \in Jobs :
          status[j] = "running" =>
              progress'[j] >= progress[j] /\ progress'[j] \in 0..100]_vars

C16_StorageSteps ==
    [][storage_used' # storage_used =>
          \/ \E j \in Jobs : /\ step[j] = "commit"
                             /\ step'[j] = "idle"
                             /\ storage_used' = storage_used + file_size'[j]
          \/ /\ dpc = "commit"
             /\ dpc' = "idle"
             /\ storage_used' = IF storage_used > file_size[dvid]
                                   THEN storage_used - file_size[dvid] ELSE 0]_vars

\* C17: storage_used is never negative.
C17_StorageNonNegative == storage_used >= 0

\* A delete_video call is about to subtract more than the owner has used.
C17_Witness ==
    dpc = "commit" /\ dsize > dused

\* C18: free capacity is never lost for good: with a pending job waiting and
\* no execution queued or in progress, the registry is not full.
C18_CapacityNotLost ==
    ~ /\ PendingJobs # {}
      /\ Live = {}
      /\ ppc \in {"wait", "clear", "slots"}
      /\ Active >= max_workers

\* C19: shutdown(wait=True, timeout) is no longer waiting for the pool once
\* its timeout has passed; shutdown(wait=False) has returned with no Future
\* left queued.
C19_ShutdownReturns ==
    /\ spc = "pool_wait" => ~stimeout
    /\ (spc = "done" /\ ~swait) => \A j \in Jobs : exec[j] # "queued"

C26_RegistryWithinPool ==
    /\ Active <= max_workers
    /\ get_queue_status.active_jobs + get_queue_status.available_slots = max_workers
    /\ get_queue_status.available_slots \in 0..max_workers

\* The registry is full while another job is pending.
C26_Witness ==
    /\ Active = max_workers
    /\ PendingJobs # {}
    /\ get_queue_status.available_slots = 0

\* C27: a job whose execution has finished or was cancelled in the pool, and
\* which the poller is not in the middle of scheduling, is not in the
\* registry.
C27_FinishedNotRegistered ==
    \A j \in Jobs :
        (exec[j] \in {"done", "cancelled"} /\ ~Scheduling(j)) => j \notin active_jobs

\* C28: the wake flag is cleared only on the way into a pass, and a raised
\* flag is followed by the start of a pass (the computation of the free
\* slots) unless shutdown is requested.
C28_NoLostWake ==
    /\ [][(wake /\ ~wake') => ppc' = "slots"]_vars
    /\ (wake ~> (ppc = "slots" \/ shutdown_requested))

\* The flag is raised while a pass is under way, with a job still pending.
C28_Witness ==
    /\ wake
    /\ ppc \in {"submit", "register", "commit"}
    /\ PendingJobs # {}
    /\ ~shutdown_requested

C23_FailedSinkPruned ==
    [][\A e \in Events :
          (bpc(e) \in {"awaiting", "cleanup"} /\ bpc(e)' = "done") =>
              /\ \A c \in disconnected(e) :
                    \/ buser(e) \notin DOMAIN active_connections'
                    \/ c \notin active_connections'[buser(e)]
              /\ \A c \in atFanout(e) : nsent(e, c) = 1]_vars

\* A broadcast has removed a connection whose send failed, and another
\* connection of the same user is still registered.
C23_Witness ==
    \E c, d \in Sinks :
        /\ wstate(c) = "pruned"
        /\ wstate(d) = "registered"
        /\ wuser(c) = wuser(d)

\* C24: a user id is a key of active_connections exactly if a connection is
\* registered for that user, and the set under the key holds exactly those
\* connections; so no key maps to an empty set.
C24_NoEmptyKey ==
    /\ \A u \in Users : u \in DOMAIN active_connections <=> Registered(u) # {}
    /\ \A u \in DOMAIN active_connections : active_connections[u] = Registered(u)

\* The last connection of a user was removed by a broadcast and the key of
\* the user is gone.
C24_Witness ==
    \E c \in Sinks : wstate(c) = "pruned" /\ wuser(c) \notin DOMAIN active_connections

\* C25: a connection is sent an event at most once, and only if it was
\* registered for the user when the fan-out of the event began.
C25_AtMostOnce ==
    \A e \in Events, c \in Sinks :
        /\ nsent(e, c) <= 1
        /\ nsent(e, c) >= 1 => c \in atFanout(e)

\* A broadcast is under way, and a connection registered for the same user
\* after its fan-out began has not been sent its event.
C25_Witness ==
    \E e \in Events, c \in Sinks :
        /\ bpc(e) \in {"sending", "awaiting", "cleanup"}
        /\ wstate(c) = "registered"
        /\ wuser(c) = buser(e)
        /\ c \notin atFanout(e)
        /\ nsent(e, c) = 0

\* C22: once a worker has recorded a terminal status for a job, an event
\* has been handed to the WebSocketManager.
C22_ProgressPublished ==
    \A j \in Jobs :
        (status[j] \in {"completed", "failed"} /\ exec[j] = "done") =>
            \E e \in Events : pubcall(e) # "none"

\* C29: the step that records a job completed also makes its video ready
\* with the final path, the size and the checksum, sets the progress to 100
\* and raises storage_used by exactly that size.
C29_FinalizeAtomic ==
    [][\A j \in Jobs :
          (status[j] # "completed" /\ status'[j] = "completed") =>
              /\ vstatus'[j] = "ready"
              /\ file_path'[j] = "final"
              /\ checksum'[j]
              /\ file_size'[j] > 0
              /\ progress'[j] = 100
              /\ storage_used' = storage_used + file_size'[j]]_vars

\* C30: a job recorded failed has a video recorded error or deleted, with
\* the same message.
C30_FailedHasError ==
    \A j \in Jobs :
        status[j] = "failed" =>
            /\ vstatus[j] \in {"error", "deleted"}
            /\ verror_message[j] = error_message[j]

\* A job has failed on the size limit and both rows carry that message.
C30_Witness ==
    \E j \in Jobs :
        /\ status[j] = "failed"
        /\ exec[j] = "done"
        /\ error_message[j] = "size_limit"
        /\ vstatus[j] = "error"

\* The worker of j ends execute_download with its final transaction or with
\* _mark_job_failed.
WorkerFinalizes(j) ==
    /\ exec[j] = "loaded"
    /\ exec'[j] = "done"
    /\ step[j] \in {"commit"} \cup Failures

\* A delete_video call commits for the video of j.
DeleteCommits(j) == dpc = "commit" /\ dvid = j /\ dpc' = "idle"

\* status, size, checksum and path of the Video of j.
Artifact(j) == << vstatus[j], file_size[j], checksum[j], file_path[j] >>

\* C31: a step that changes status, size, checksum or path of an existing
\* Video is a worker's finalization or a delete_video commit; no scheduling
\* pass, completion callback, cancel_job or shutdown step changes them.
C31_SchedulerLeavesArtifacts ==
    [][\A j \in Jobs :
          (vstatus[j] # "none" /\ Artifact(j)' # Artifact(j)) =>
              WorkerFinalizes(j) \/ DeleteCommits(j)]_vars

\* cancel_job has cancelled a pending job and returned True after shutdown
\* was called; the Video is as submit_download created it.
C31_Witness ==
    /\ cpc = "returned"
    /\ cret
    /\ status[cjob] = "cancelled"
    /\ shutdown_requested
    /\ vstatus[cjob] = "processing"
    /\ file_size[cjob] = 0

\* C32: from one state of the job table and one number of free slots the
\* query of a pass has one possible result: the same jobs in the same order,
\* also when pending jobs are equal in priority and in creation time.
C32_SelectionDetermined ==
    \A n \in 1..max_workers : \A s, t \in FetchPending(n) : s = t

\* C33: a safe_move_file call that finds a file at the destination, or a
\* destination directory outside of the storage root, raises, moves nothing
\* and leaves the destination as it found it; no call replaces a file that
\* was there or places a file outside of the root; and the worker ends the
\* execution of a job whose call raised by recording the job failed.
C33_MoveRefused ==
    /\ [](\A j \in Jobs : moves[j].called =>
            /\ (moves[j].found = "file" \/ moves[j].dir = "outside") =>
                   /\ moves[j].raised
                   /\ ~moves[j].moved
                   /\ moves[j].dest_now = moves[j].found
                   /\ moves[j].placed = "none"
            /\ moves[j].found = "file" => moves[j].dest_now = "file"
            /\ moves[j].placed # "outside"
            /\ moves[j].raised => step[j] \notin {"final", "commit"})
    /\ [][\A j \in Jobs :
            (moves[j].called /\ moves[j].raised
               /\ exec[j] = "loaded" /\ exec'[j] = "done") =>
                  status'[j] = "failed" /\ vstatus'[j] = "error"]_vars

\* A call found a file at its destination and raised; the job is failed.
C33_Witness ==
    \E j \in Jobs :
        /\ moves[j].called
        /\ moves[j].found = "file"
        /\ moves[j].dir = "inside"
        /\ moves[j].raised
        /\ exec[j] = "done"
        /\ status[j] = "failed"

\* The classes of message _handle_subprocess_error chooses from.
Classes == {"size_limit", "unsupported", "unavailable", "private", "download"}

Size(out) == In("File is larger than max-filesize", out) \/ In("max-filesize", out)
Url(out) == In("Unsupported URL", out) \/ In("is not a valid URL", out)

\* C34: the step that handles a process ended with a code that is not 0
\* writes to the job and to the video one message, which the captured
\* output alone decides: the first that applies of size limit,
\* unsupported or invalid URL, unavailable, private, and the generic one.
C34_FirstMatch ==
    [][\A j \in Jobs :
        (step[j] \in {"size_error", "proc_error"} /\ exec'[j] = "done") =>
            LET out == captured[j]
                m == error_message'[j]
            IN /\ m \in Classes
               /\ verror_message'[j] = m
               /\ Size(out) => m = "size_limit"
               /\ (~Size(out) /\ Url(out)) => m = "unsupported"
               /\ (~Size(out) /\ ~Url(out) /\ In("Video unavailable", out))
                     => m = "unavailable"
               /\ (~Size(out) /\ ~Url(out) /\ ~In("Video unavailable", out)
                     /\ In("Private video", out)) => m = "private"
               /\ (\A ph \in Phrases : ~In(ph, out)) => m = "download"
               /\ \A k \in Jobs :
                     (step[k] \in {"size_error", "proc_error"}
                        /\ captured[k] = out /\ exec'[k] = "done")
                     => error_message'[k] = m]_vars

\* A job has failed on an output with both 'Video unavailable' and
\* 'Private video' in it and carries the message of the first of the two.
C34_Witness ==
    \E j \in Jobs :
        /\ exec[j] = "done"
        /\ {"Video unavailable", "Private video"} \subseteq captured[j]
        /\ error_message[j] = "unavailable"
        /\ verror_message[j] = "unavailable"

\* C35: once a cancel_job call for a job has returned True, no step records
\* the job running, completed or failed, and no worker takes up or goes on
\* with its execution.
C35_CancelIsFinal ==
    [][\A j \in Jobs : trueCancels[j] >= 1 =>
          /\ status'[j] # status[j] =>
                status'[j] \notin {"running", "completed", "failed"}
          /\ exec'[j] # exec[j] => exec'[j] \notin {"picked", "loaded", "done"}]_vars

\* C36: a requested shutdown is followed by the end of the poller, and once
\* the shutdown call has returned no job goes from pending to running and
\* no job is added to the registry.
C36_ShutdownIsFinal ==
    /\ shutdown_requested ~> ppc = "stopped"
    /\ [][spc = "done" =>
            /\ active_jobs' \subseteq active_jobs
            /\ \A j \in Jobs :
                  status[j] = "pending" => status'[j] # "running"]_vars

\* C37: a video in status deleted stays deleted, and neither the end of
\* its job's execution nor a further delete_video of it changes the
\* owner's storage_used.
C37_DeletedIsFinal ==
    [][\A v \in Jobs : vstatus[v] = "deleted" =>
          /\ vstatus'[v] = "deleted"
          /\ (WorkerFinalizes(v) \/ DeleteCommits(v)) =>
                storage_used' = storage_used]_vars

\* The sum of file_size over the videos of V.
RECURSIVE TotalSize(_)
TotalSize(V) ==
    IF V = {} THEN 0
    ELSE LET v == CHOOSE x \in V : TRUE
         IN  file_size[v] + TotalSize(V \ {v})

\* C38: the owner's storage_used is the sum of file_size over the owner's
\* videos in status ready.
C38_StorageIsReadyTotal ==
    storage_used = TotalSize({v \in Jobs : vstatus[v] = "ready"})

\* C39: the owner's storage_used never exceeds the owner's storage_quota.
C39_WithinQuota == storage_used <= storage_quota

\* C40: a connection is in the set of one user only, the user it was
\* opened for; the connections a broadcast has copied, is sending to or has
\* sent to were registered for the user of its event when it took its copy
\* and belong to no other user, whatever is broadcast for other users.
C40_OwnSinksOnly ==
    /\ \A u \in DOMAIN active_connections :
          \A c \in active_connections[u] : wuser(c) = u
    /\ \A e \in Events, c \in Sinks :
          (c \in connections(e) \/ nsent(e, c) >= 1) =>
              /\ c \in atFanout(e)
              /\ wuser(c) \in {buser(e), 0}

\* The event of one user is being sent to the connection of that user
\* while a connection of another user is registered and is neither in the
\* copy nor sent to.
C40_Witness ==
    \E e \in Events, c, d \in Sinks :
        /\ bpc(e) = "awaiting"
        /\ nsent(e, c) = 1
        /\ wuser(c) = buser(e)
        /\ wstate(d) = "registered"
        /\ wuser(d) \notin {0, buser(e)}
        /\ d \notin connections(e)
        /\ nsent(e, d) = 0

====
